---- MODULE Spec2Model ----
(***************************************************************************)
(* A model of plum.process.Process (src/plum/process.py): the lifecycle    *)
(* state machine of one process driven by an event loop, its control       *)
(* surface (play, pause, abort), its outputs, its lifecycle hooks with the *)
(* super-call check, its checkpoint / restore, its listeners and the stack *)
(* and registry its driver keeps.                                          *)
(*                                                                         *)
(* The state classes (Created, Running, Waiting, Stopped, Failed) live in  *)
(* plum.process_states, which is not part of the sources at hand; their    *)
(* enter / execute / abort behaviour is modelled from the specification's  *)
(* transition table (section 4.1) and control surface (section 4.5).       *)
(*                                                                         *)
(* Every handler is one atomic action: the loop is a single cooperative    *)
(* context and runs one callback at a time.  A handler is written as a     *)
(* pure function on a record `p` holding the process fields, so that the   *)
(* order of its statements, and the point at which an exception cuts it    *)
(* short, are those of the code.                                           *)
(***************************************************************************)
EXTENDS Integers, Sequences, FiniteSets, TLC

\* ------------------------------------------------------------------ bounds

\* Number of abort() calls (completion handles) in a behaviour.
MaxAborts == 2
\* Number of out() calls one run step makes.
MaxOuts == 1

\* ------------------------------------------------------------- value sets

None == "None"

Labels == {"CREATED", "RUNNING", "WAITING", "STOPPED", "FAILED"}
Terminal == {"STOPPED", "FAILED"}

Hooks == {"on_create", "on_start", "on_run", "on_wait", "on_resume",
          "on_finish", "on_abort", "on_stop", "on_fail", "on_terminate"}

\* The process spec of the subclass: one declared, required output port of
\* type int, and possibly a dynamic port, also of type int.
DeclaredPorts == {"y"}
Ports == {"y", "z"}
IntValues == {"i1"}
Values == IntValues \cup {"s1"}
\* The message of the k-th abort() call of a behaviour.
Msgs == <<"m1", "m2", "m3", "m4">>
Pids == {"pid1"}
RawInputs == {None, "inputs"}
CreationTimes == {"t1"}
\* The awaitable a run step asks to wait on.
WaitHandles == {"w1"}
\* The process listeners of the environment.
Listeners == {"l1"}
NoException == "none"

VARIABLES
    \* --- the process object
    pid,            \* Process._pid
    ctime,          \* Process._CREATION_TIME
    rawInputs,      \* Process._raw_inputs
    state,          \* Process._state: None or the label of the active state
    aborted,        \* Stopped._abort of the active state
    abortMsg,       \* Stopped._abort_msg of the active state
    excInfo,        \* Failed's exc_info of the active state
    scheduled,      \* the active state has its execute / resume callback pending
    finished,       \* Process._finished
    terminated,     \* Process._terminated
    paused,         \* Process.__paused
    called,         \* Process.__called
    outputs,        \* Process._outputs
    savedState,     \* Process.__saved_state
    inLoop,         \* the process is inserted in a loop
    waitingOn,      \* the awaitable held by the active state (get_waiting_on)
    listeners,      \* the listeners held by Process.__event_helper
    \* --- module globals
    stack,          \* plum.stack: the processes being executed, innermost last
    registered,     \* the process is in MONITOR, the registry of playing processes
    \* --- the loop
    queue,          \* the deferred aborts passed to loop.call_soon, oldest first
    events,         \* the notifications passed to loop.call_soon, oldest first
    futs,           \* the futures created by abort()
    \* --- the subclass and its spec
    badHook,        \* the hook the subclass overrides without exactly one super call
    badCalls,       \* how many times that override calls the base method
    hasDynamic,     \* spec().has_dynamic_output()
    \* --- the checkpoint
    bundle,         \* the bundle written by save_instance_state: <<>> or <<bundle>>
    \* --- what the last handler did
    op,             \* the operation
    prevLabel,      \* the label of the active state when it started
    trace,          \* the hooks it called, in order
    outLog,         \* the out() calls made in it, in order
    emitted,        \* the on_output_emitted calls it made
    stateCalls,     \* the methods of state objects it called, in order
    notified,       \* the listener callbacks that ran in it, in order
    dropped,        \* the listeners it took out of the event helper
    raised          \* the exception that escaped it

procVars == <<pid, ctime, rawInputs, state, aborted, abortMsg, excInfo, scheduled,
              finished, terminated, paused, called, outputs, savedState, inLoop>>
classVars == <<badHook, badCalls, hasDynamic>>
handlerVars == <<op, prevLabel, trace, outLog, emitted, raised>>
driverVars == <<stack, registered>>
vars == <<procVars, waitingOn, listeners, driverVars, queue, events, futs, classVars,
          bundle, handlerVars, stateCalls, notified, dropped>>

\* ------------------------------------------------------- the subclass

\* How many times the subclass's override of hook h calls the base method
\* (a hook that is not overridden, or overridden correctly: once).
BaseCalls(h) == IF h = badHook THEN badCalls ELSE 1

\* ProcessListener's method for a hook's event.
ListenerEvent(h) ==
    CASE h = "on_start" -> "on_process_start"
      [] h = "on_run" -> "on_process_run"
      [] h = "on_wait" -> "on_process_wait"
      [] h = "on_resume" -> "on_process_resume"
      [] h = "on_abort" -> "on_process_abort"
      [] h = "on_finish" -> "on_process_finish"
      [] h = "on_stop" -> "on_process_stop"
      [] h = "on_fail" -> "on_process_fail"
      [] h = "on_terminate" -> "on_process_terminate"
      [] OTHER -> None

\* ------------------------------------------------------- loop callbacks

AbortItem(f, m) == [fut |-> f, msg |-> m]

\* ------------------------------------------------------- the handler record

\* The process fields a handler reads and writes, the loop's notifications, and what
\* the handler has done so far; exc is the exception in flight.
Cur == [state |-> state, aborted |-> aborted, abortMsg |-> abortMsg,
        excInfo |-> excInfo, scheduled |-> scheduled, finished |-> finished,
        terminated |-> terminated, paused |-> paused, called |-> called,
        outputs |-> outputs, events |-> events, trace |-> <<>>, outLog |-> <<>>,
        emitted |-> <<>>,
        waitingOn |-> waitingOn, stack |-> stack, stateCalls |-> <<>>,
        notified |-> <<>>,
        exc |-> NoException]

\* EventHelper.fire_event(event, ...) run now: the registered listeners' method
\* for the event is called.
HelperFireEvent(p, event) ==
    IF listeners = {} THEN p ELSE [p EXCEPT !.notified = Append(@, event)]

\* Process._fire_event: the notification is passed to loop.call_soon.
FireEvent(p, h) == [p EXCEPT !.events = Append(@, ListenerEvent(h))]

\* OutputPort.validate of the declared port (required, of type int).
PortValidate(v) == v /= None /\ v \in IntValues

\* _check_outputs that accepts whatever was emitted.
CheckOutputs_Unchecked(outs) == TRUE

\* Process._check_outputs: TRUE when no RuntimeError is raised.
CheckOutputs(outs) == \A name \in DeclaredPorts : PortValidate(outs[name])

\* Base methods of which on_resume confirms the call without firing its event.
Base_ResumeSilent(h, p) ==
    CASE h = "on_create" -> [p EXCEPT !.called = TRUE]
      [] h = "on_resume" -> [p EXCEPT !.called = TRUE]
      [] h = "on_finish" ->
            IF ~CheckOutputs(p.outputs)
            THEN [p EXCEPT !.exc = "RuntimeError"]
            ELSE [FireEvent([p EXCEPT !.finished = TRUE], h) EXCEPT !.called = TRUE]
      [] OTHER -> [FireEvent(p, h) EXCEPT !.called = TRUE]

\* The base method of hook h (Process.on_create .. Process.on_terminate).
Base(h, p) ==
    CASE h = "on_create" -> [p EXCEPT !.called = TRUE]
      [] h = "on_finish" ->
            IF ~CheckOutputs(p.outputs)
            THEN [p EXCEPT !.exc = "RuntimeError"]
            ELSE [FireEvent([p EXCEPT !.finished = TRUE], h) EXCEPT !.called = TRUE]
      [] OTHER -> [FireEvent(p, h) EXCEPT !.called = TRUE]

\* The subclass's override of hook h: the base method, k times.
RECURSIVE Override(_, _, _)
Override(h, p, k) ==
    IF k = 0 \/ p.exc /= NoException THEN p
    ELSE Override(h, Base(h, p), k - 1)

\* _call_with_super_check without its assertion.
SuperCheck_NoAssert(p) == p

\* The assertion of _call_with_super_check.
SuperCheck(p) ==
    IF p.exc = NoException /\ ~p.called
    THEN [p EXCEPT !.exc = "AssertionError"]
    ELSE p

\* Process._call_with_super_check(fn).
CallWithSuperCheck(h, p) ==
    LET p1 == SuperCheck(Override(h, [p EXCEPT !.called = FALSE], BaseCalls(h)))
    IN [p1 EXCEPT !.trace = Append(@, [hook |-> h, calls |-> BaseCalls(h),
                                       outcome |-> IF p1.exc = NoException
                                                   THEN "ok" ELSE p1.exc,
                                       label |-> p.state])]

\* Hooks called one after the other; an exception ends the sequence.
RECURSIVE CallHooks(_, _)
CallHooks(hs, p) ==
    IF hs = <<>> \/ p.exc /= NoException THEN p
    ELSE CallHooks(Tail(hs), CallWithSuperCheck(Head(hs), p))

\* ------------------------------------------------------- the state classes

\* The hooks a state calls when entered (the transition table).
EntryHooks(label, prev, abort) ==
    CASE label = "CREATED" -> <<"on_create">>
      [] label = "RUNNING" ->
            IF prev = "CREATED" THEN <<"on_start", "on_run">>
            ELSE IF prev = "WAITING" THEN <<"on_resume", "on_run">>
            ELSE <<"on_run">>
      [] label = "WAITING" -> <<"on_wait">>
      [] label = "STOPPED" ->
            IF abort THEN <<"on_abort", "on_stop">> ELSE <<"on_finish", "on_stop">>
      [] label = "FAILED" -> <<"on_fail">>
      [] OTHER -> <<>>

\* State.enter(previous_state): the entry hooks, then the state's callback
\* (its execution, or for WAITING its resumption) is left pending on the loop.
Enter(p, prev) ==
    LET p0 == [p EXCEPT !.stateCalls = Append(@, [method |-> "enter", label |-> p.state,
                                                  arg |-> prev, depth |-> Len(p.stack)])]
        p1 == CallHooks(EntryHooks(p.state, prev, p.aborted), p0)
    IN IF p1.exc = NoException THEN [p1 EXCEPT !.scheduled = TRUE] ELSE p1

\* State.abort(): the stop-looping signal, the pending callback is cancelled.
StateAbort(p) ==
    [p EXCEPT !.scheduled = FALSE,
              !.stateCalls = Append(@, [method |-> "abort", label |-> p.state,
                                        arg |-> None, depth |-> Len(p.stack)])]

\* Process._set_state(state): exit the old state, install the new, enter it.
SetState(p, label, abort, msg, exc) ==
    LET p0 == IF p.state = None THEN p
              ELSE [p EXCEPT !.stateCalls = Append(@, [method |-> "exit", label |-> p.state,
                                                       arg |-> None,
                                                       depth |-> Len(p.stack)])]
    IN Enter([p0 EXCEPT !.state = label, !.aborted = abort, !.abortMsg = msg,
                        !.excInfo = exc, !.scheduled = FALSE,
                        !.waitingOn = IF label = "WAITING"
                                      THEN CHOOSE w \in WaitHandles : TRUE ELSE None],
             p.state)

\* Process._terminate.
Terminate(p) == CallWithSuperCheck("on_terminate", [p EXCEPT !.terminated = TRUE])

\* Process.on_output_emitted: the listeners are called through the event helper.
OnOutputEmitted(p, port, value, dynamic) ==
    HelperFireEvent([p EXCEPT !.emitted = Append(@, <<port, value, dynamic>>)],
                    "on_output_emitted")

\* The declared type of the dynamic port.
DynamicValidType == IntValues

\* out() that stores the value before it looks the port up.
Out_StoreFirst(p, port, value) ==
    IF port \in DeclaredPorts
    THEN OnOutputEmitted([p EXCEPT !.outputs[port] = value], port, value, FALSE)
    ELSE IF ~hasDynamic THEN [p EXCEPT !.outputs[port] = value, !.exc = "TypeError"]
    ELSE IF value \notin DynamicValidType THEN [p EXCEPT !.exc = "TypeError"]
    ELSE OnOutputEmitted([p EXCEPT !.outputs[port] = value], port, value, TRUE)

\* Process.out(output_port, value): the type of the value is checked only on
\* the path of an undeclared port (the check sits in the except block).
Out(p, port, value) ==
    IF port \in DeclaredPorts
    THEN OnOutputEmitted([p EXCEPT !.outputs[port] = value], port, value, FALSE)
    ELSE IF ~hasDynamic THEN [p EXCEPT !.exc = "TypeError"]
    ELSE IF value \notin DynamicValidType THEN [p EXCEPT !.exc = "TypeError"]
    ELSE OnOutputEmitted([p EXCEPT !.outputs[port] = value], port, value, TRUE)

\* A call of out() by the subclass, entered in the handler's record.
OutCall(p, port, value) ==
    LET p1 == Out(p, port, value)
    IN [p1 EXCEPT !.outLog = Append(@, [port |-> port, value |-> value,
                                        result |-> IF p1.exc = NoException
                                                   THEN "emitted" ELSE p1.exc])]

\* The out() calls of a run step; an exception ends the step.
RECURSIVE RunOuts(_, _)
RunOuts(p, outs) ==
    IF outs = <<>> \/ p.exc /= NoException THEN p
    ELSE RunOuts(OutCall(p, Head(outs)[1], Head(outs)[2]), Tail(outs))

\* An exception raised while a non-terminal state executes is caught and the
\* process goes to FAILED with it.
Catch(p) ==
    IF p.exc = NoException THEN p
    ELSE SetState([p EXCEPT !.exc = NoException], "FAILED", FALSE, None, p.exc)

\* Running.execute(): the run step (do_run), then the transition it asks for.
RunningExecute(p, script) ==
    LET p1 == RunOuts(p, script.outs)
    IN IF p1.exc /= NoException THEN Catch(p1)
       ELSE CASE script.end = "raise" -> Catch([p1 EXCEPT !.exc = "UserError"])
              [] script.end = "wait" -> Catch(SetState(p1, "WAITING", FALSE, None, None))
              [] OTHER -> Catch(SetState(p1, "STOPPED", FALSE, None, None))

\* state.execute() of the active state; its pending callback is spent.
StateExecute(p, script) ==
    LET p0 == [p EXCEPT !.scheduled = FALSE,
                        !.stateCalls = Append(@, [method |-> "execute", label |-> p.state,
                                                  arg |-> None,
                                                  depth |-> Len(p.stack)])]
    IN CASE p.state = "CREATED" -> Catch(SetState(p0, "RUNNING", FALSE, None, None))
         [] p.state = "RUNNING" -> RunningExecute(p0, script)
         [] p.state = "WAITING" -> Catch(SetState(p0, "RUNNING", FALSE, None, None))
         [] p.state \in Terminal -> Terminate(p0)
         [] OTHER -> [p0 EXCEPT !.exc = "AttributeError"]

\* load_state(process, saved_state) and the _set_state of on_loop_inserted.
LoadState(p, saved) ==
    SetState(p, saved.label, saved.aborted, saved.abortMsg, saved.excInfo)

\* The null marker save_instance_state writes when no state is active, which is
\* also the value of __saved_state in a process that was not loaded.
NoStateBundle == [label |-> None, aborted |-> FALSE, abortMsg |-> None, excInfo |-> None]

\* State.save_instance_state(bundle) of the active state.
StateBundle ==
    [label |-> state, aborted |-> aborted, abortMsg |-> abortMsg, excInfo |-> excInfo]

\* ------------------------------------------------------- handlers

\* _do_abort that enters Stopped without the abort flag and message.
DoAbort_PlainStop(p, msg) ==
    IF p.terminated THEN [res |-> "False", p |-> p]
    ELSE LET p1 == StateAbort(p)
             p2 == SetState(p1, "STOPPED", FALSE, None, None)
             p3 == IF p2.exc = NoException THEN StateExecute(p2, None) ELSE p2
         IN [res |-> IF p3.exc = NoException THEN "True" ELSE "pending", p |-> p3]

\* _do_abort without the has_terminated() test.
DoAbort_NoGuard(p, msg) ==
    LET p1 == StateAbort(p)
        p2 == SetState(p1, "STOPPED", TRUE, msg, None)
        p3 == IF p2.exc = NoException THEN StateExecute(p2, None) ELSE p2
    IN [res |-> IF p3.exc = NoException THEN "True" ELSE "pending", p |-> p3]

\* _do_abort that reports success on a process that has terminated.
DoAbort_TrueWhenTerminated(p, msg) ==
    IF p.terminated THEN [res |-> "True", p |-> p]
    ELSE LET p1 == StateAbort(p)
             p2 == SetState(p1, "STOPPED", TRUE, msg, None)
             p3 == IF p2.exc = NoException THEN StateExecute(p2, None) ELSE p2
         IN [res |-> IF p3.exc = NoException THEN "True" ELSE "pending", p |-> p3]

\* Process._do_abort(fut, msg); the future's result is in field `res`.
DoAbort(p, msg) ==
    IF p.terminated THEN [res |-> "False", p |-> p]
    ELSE LET p1 == StateAbort(p)
             p2 == SetState(p1, "STOPPED", TRUE, msg, None)
             p3 == IF p2.exc = NoException THEN StateExecute(p2, None) ELSE p2
         IN [res |-> IF p3.exc = NoException THEN "True" ELSE "pending", p |-> p3]

\* plum.stack.push(process) and plum.stack.pop(process).
StackPush(stk) == Append(stk, pid)
StackPop(stk) == IF stk = <<>> THEN stk ELSE SubSeq(stk, 1, Len(stk) - 1)

\* _execute_state that pops the stack only when execute returns normally.
ExecuteStateOp_PopOnSuccess(p, script) ==
    LET p1 == StateExecute([p EXCEPT !.stack = StackPush(@)], script)
    IN IF p1.exc = NoException THEN [p1 EXCEPT !.stack = StackPop(@)] ELSE p1

\* Process._execute_state(): push, execute the active state, pop in any case.
ExecuteStateOp(p, script) ==
    LET p1 == StateExecute([p EXCEPT !.stack = StackPush(@)], script)
    IN [p1 EXCEPT !.stack = StackPop(@)]

\* play() without the is_playing() test.
PlayOp_AlwaysEnters(p) ==
    LET p1 == Enter(p, p.state)
    IN IF p1.exc = NoException THEN [p1 EXCEPT !.paused = FALSE] ELSE p1

\* Process.play().
PlayOp(p) ==
    IF ~p.paused THEN p
    ELSE LET p1 == Enter(p, p.state)
         IN IF p1.exc = NoException THEN [p1 EXCEPT !.paused = FALSE] ELSE p1

\* pause() that lets go of the awaitable of a waiting process.
PauseOp_DropsAwaitable(p) ==
    IF p.paused THEN p
    ELSE [StateAbort(p) EXCEPT !.paused = TRUE, !.waitingOn = None]

\* Process.pause().
PauseOp(p) ==
    IF p.paused THEN p
    ELSE [StateAbort(p) EXCEPT !.paused = TRUE]

\* on_loop_inserted that ignores the staged state bundle.
OnLoopInserted_AlwaysCreated(p) == SetState(p, "CREATED", FALSE, None, None)

\* Process.on_loop_inserted(loop).
OnLoopInserted(p) ==
    IF savedState = NoStateBundle THEN SetState(p, "CREATED", FALSE, None, None)
    ELSE LoadState(p, savedState)

\* The assignments a handler's result makes to the process, the loop and the
\* record of the handler.
Commit(p, name) ==
    /\ state' = p.state
    /\ aborted' = p.aborted
    /\ abortMsg' = p.abortMsg
    /\ excInfo' = p.excInfo
    /\ scheduled' = p.scheduled
    /\ finished' = p.finished
    /\ terminated' = p.terminated
    /\ paused' = p.paused
    /\ called' = p.called
    /\ outputs' = p.outputs
    /\ events' = p.events
    /\ trace' = p.trace
    /\ outLog' = p.outLog
    /\ emitted' = p.emitted
    /\ waitingOn' = p.waitingOn
    /\ stack' = p.stack
    /\ stateCalls' = p.stateCalls
    /\ notified' = p.notified
    /\ dropped' = {}
    /\ prevLabel' = state
    /\ raised' = p.exc
    /\ op' = name

\* The run steps a subclass may take: at most MaxOuts out() calls, then return,
\* wait or raise.
OutCalls == UNION {[1..n -> Ports \X Values] : n \in 0..MaxOuts}
Scripts == [outs : OutCalls, end : {"return", "wait", "raise"}]

NoOutputs == [port \in Ports |-> None]

\* ------------------------------------------------------- the state machine

\* Process.__init__: a process just constructed, not yet inserted in a loop.
\* The subclass either keeps the hook contract, and then its inputs and its
\* dynamic port vary, or breaks it for one hook (no super call, or two).
Init ==
    /\ badHook \in Hooks \cup {None}
    /\ badCalls \in IF badHook = None THEN {1} ELSE {0, 2}
    /\ hasDynamic \in IF badHook = None THEN BOOLEAN ELSE {FALSE}
    /\ pid \in Pids
    /\ ctime \in CreationTimes
    /\ rawInputs \in IF badHook = None THEN RawInputs ELSE {"inputs"}
    /\ state = None
    /\ aborted = FALSE
    /\ abortMsg = None
    /\ excInfo = None
    /\ scheduled = FALSE
    /\ finished = FALSE
    /\ terminated = FALSE
    /\ paused = FALSE
    /\ called = FALSE
    /\ outputs = NoOutputs
    /\ savedState = NoStateBundle
    /\ inLoop = FALSE
    /\ waitingOn = None
    /\ listeners = {}
    /\ stack = <<>>
    /\ registered = FALSE
    /\ stateCalls = <<>>
    /\ notified = <<>>
    /\ dropped = {}
    /\ queue = <<>>
    /\ events = <<>>
    /\ futs = <<>>
    /\ bundle = <<>>
    /\ op = "init"
    /\ prevLabel = None
    /\ trace = <<>>
    /\ outLog = <<>>
    /\ emitted = <<>>
    /\ raised = NoException

\* The loop delivers its notifications in the order they were scheduled and
\* before any callback scheduled after them: a handler starts with none pending.
LoopIdle == events = <<>>

\* What a handler leaves alone besides the fields of Commit.
Frame == UNCHANGED <<pid, ctime, rawInputs, savedState, classVars, listeners, registered>>

\* The loop takes the process in: on_loop_inserted.  It runs once for an object
\* and nothing else reads the staged bundle, which the model drops once read.
Insert ==
    /\ ~inLoop
    /\ LoopIdle
    /\ inLoop' = TRUE
    /\ Commit(OnLoopInserted(Cur), "insert")
    /\ savedState' = NoStateBundle
    /\ bundle' = IF op = "load" THEN bundle ELSE <<>>
    /\ UNCHANGED <<pid, ctime, rawInputs, classVars, queue, futs, listeners, registered>>

\* The loop runs the pending callback of the active state: _execute_state.
ExecuteState ==
    /\ inLoop
    /\ scheduled
    /\ LoopIdle
    /\ \E script \in Scripts :
          /\ state /= "RUNNING" => script = [outs |-> <<>>, end |-> "return"]
          /\ Commit(ExecuteStateOp(Cur, script), "execute")
    /\ bundle' = <<>>
    /\ Frame
    /\ UNCHANGED <<inLoop, queue, futs>>

\* abort() that signals the active state itself before it defers the abort.
Abort_SignalsState ==
    /\ Len(futs) < MaxAborts
    /\ LoopIdle
    /\ inLoop
    /\ futs' = Append(futs, "pending")
    /\ queue' = Append(queue, AbortItem(Len(futs) + 1, Msgs[Len(futs) + 1]))
    /\ raised' = NoException
    /\ scheduled' = FALSE
    /\ op' = "abort"
    /\ prevLabel' = state
    /\ trace' = <<>>
    /\ outLog' = <<>>
    /\ emitted' = <<>>
    /\ stateCalls' = <<>>
    /\ notified' = <<>>
    /\ dropped' = {}
    /\ bundle' = <<>>
    /\ UNCHANGED <<pid, ctime, rawInputs, state, aborted, abortMsg, excInfo,
                   finished, terminated, paused, called, outputs, savedState,
                   inLoop, events, classVars, waitingOn, listeners, driverVars>>

\* abort(msg), from any thread.
Abort ==
    /\ Len(futs) < MaxAborts
    /\ LoopIdle
    /\ IF inLoop
       THEN /\ futs' = Append(futs, "pending")
            /\ queue' = Append(queue, AbortItem(Len(futs) + 1, Msgs[Len(futs) + 1]))
            /\ raised' = NoException
       ELSE /\ raised' = "AssertionError"
            /\ UNCHANGED <<futs, queue>>
    /\ op' = "abort"
    /\ prevLabel' = state
    /\ trace' = <<>>
    /\ outLog' = <<>>
    /\ emitted' = <<>>
    /\ stateCalls' = <<>>
    /\ notified' = <<>>
    /\ dropped' = {}
    /\ bundle' = <<>>
    /\ UNCHANGED <<procVars, events, classVars, waitingOn, listeners, driverVars>>

\* The loop runs the oldest deferred abort: _do_abort(fut, msg).
RunAbort ==
    /\ queue /= <<>>
    /\ LoopIdle
    /\ LET r == DoAbort(Cur, Head(queue).msg)
       IN /\ Commit(r.p, "do_abort")
          /\ futs' = [futs EXCEPT ![Head(queue).fut] = r.res]
    /\ queue' = Tail(queue)
    /\ bundle' = <<>>
    /\ Frame
    /\ UNCHANGED inLoop

\* The loop runs the oldest notification: EventHelper.fire_event(event, process).
Deliver ==
    /\ events /= <<>>
    /\ events' = Tail(events)
    /\ op' = "deliver"
    /\ prevLabel' = state
    /\ trace' = <<>>
    /\ outLog' = <<>>
    /\ emitted' = <<>>
    /\ raised' = NoException
    /\ stateCalls' = <<>>
    /\ notified' = HelperFireEvent(Cur, Head(events)).notified
    /\ dropped' = {}
    /\ bundle' = <<>>
    /\ UNCHANGED <<procVars, queue, futs, classVars, waitingOn, listeners, driverVars>>

Play ==
    /\ inLoop
    /\ LoopIdle
    /\ Commit(PlayOp(Cur), "play")
    /\ bundle' = <<>>
    /\ Frame
    /\ UNCHANGED <<inLoop, queue, futs>>

Pause ==
    /\ inLoop
    /\ LoopIdle
    /\ Commit(PauseOp(Cur), "pause")
    /\ bundle' = <<>>
    /\ Frame
    /\ UNCHANGED <<inLoop, queue, futs>>

\* The subclass calls out(port, value) after its last run step (from a hook or
\* from a listener of its own), the process being in a terminal state.
CallOut ==
    /\ inLoop
    /\ state \in Terminal
    /\ LoopIdle
    /\ \E port \in Ports, value \in Values : Commit(OutCall(Cur, port, value), "out")
    /\ bundle' = <<>>
    /\ Frame
    /\ UNCHANGED <<inLoop, queue, futs>>

\* save_instance_state(out_state).
SaveInstanceState ==
    /\ LoopIdle
    /\ bundle' = <<[creation_time |-> ctime, pid |-> pid,
                    state |-> IF state = None THEN NoStateBundle ELSE StateBundle,
                    finished |-> finished, terminated |-> terminated,
                    inputs |-> rawInputs, outputs |-> outputs]>>
    /\ op' = "save"
    /\ prevLabel' = state
    /\ trace' = <<>>
    /\ outLog' = <<>>
    /\ emitted' = <<>>
    /\ raised' = NoException
    /\ stateCalls' = <<>>
    /\ notified' = <<>>
    /\ dropped' = {}
    /\ UNCHANGED <<procVars, queue, events, futs, classVars, waitingOn, listeners,
                   driverVars>>

\* load_instance_state that leaves _finished as __init__ sets it.
LoadedFields_FinishedLost(saved) == [saved EXCEPT !.finished = FALSE]

\* The fields load_instance_state reads from the bundle: the raw inputs are
\* wrapped again when present, the outputs are copied.
LoadedFields(saved) ==
    [creation_time |-> saved.creation_time,
     pid |-> saved.pid,
     finished |-> saved.finished,
     terminated |-> saved.terminated,
     state |-> saved.state,
     inputs |-> IF saved.inputs /= None THEN saved.inputs ELSE None,
     outputs |-> [port \in DOMAIN saved.outputs |-> saved.outputs[port]]]

\* load_instance_state(saved_state, loop) on a new object of the class, which
\* takes the place of the process; a bundle is loaded right after it was
\* written (or dropped), into a loop that holds no callback of the old object.
LoadInstanceState ==
    /\ bundle /= <<>>
    /\ op = "save"
    /\ queue = <<>>
    /\ ~registered
    /\ state' = None
    /\ aborted' = FALSE
    /\ abortMsg' = None
    /\ excInfo' = None
    /\ scheduled' = FALSE
    /\ paused' = FALSE
    /\ called' = FALSE
    /\ inLoop' = FALSE
    /\ LET f == LoadedFields(bundle[1])
       IN /\ ctime' = f.creation_time
          /\ pid' = f.pid
          /\ finished' = f.finished
          /\ terminated' = f.terminated
          /\ savedState' = f.state
          /\ rawInputs' = f.inputs
          /\ outputs' = f.outputs
    /\ op' = "load"
    /\ prevLabel' = state
    /\ trace' = <<>>
    /\ outLog' = <<>>
    /\ emitted' = <<>>
    /\ raised' = NoException
    /\ waitingOn' = None
    /\ listeners' = {}
    /\ stateCalls' = <<>>
    /\ notified' = <<>>
    /\ dropped' = {}
    /\ UNCHANGED <<queue, events, futs, classVars, bundle, driverVars>>

\* What an operation that is no handler of the state machine leaves alone.
Aside(name) ==
    /\ op' = name
    /\ prevLabel' = state
    /\ trace' = <<>>
    /\ outLog' = <<>>
    /\ emitted' = <<>>
    /\ stateCalls' = <<>>
    /\ notified' = <<>>
    /\ raised' = NoException
    /\ bundle' = <<>>
    /\ UNCHANGED <<procVars, waitingOn, queue, events, futs, classVars>>

\* add_process_listener(listener).
AddProcessListener ==
    /\ LoopIdle
    /\ \E l \in Listeners \ listeners : listeners' = listeners \cup {l}
    /\ dropped' = {}
    /\ Aside("add_listener")
    /\ UNCHANGED driverVars

\* remove_process_listener(listener).
RemoveProcessListener ==
    /\ LoopIdle
    /\ \E l \in listeners : listeners' = listeners \ {l} /\ dropped' = {l}
    /\ Aside("remove_listener")
    /\ UNCHANGED driverVars

\* _on_start_playing(): the driver of the process takes it on.  The call is
\* the driver's own and no callback of the loop: it may come while
\* notifications are still scheduled.
OnStartPlaying ==
    /\ inLoop
    /\ ~registered
    /\ stack' = StackPush(stack)
    /\ registered' = TRUE
    /\ dropped' = {}
    /\ Aside("start_playing")
    /\ UNCHANGED listeners

\* _on_stop_playing() that drops the listeners whether terminated or not.
OnStopPlaying_AlwaysClears ==
    /\ registered
    /\ registered' = FALSE
    /\ stack' = StackPop(stack)
    /\ listeners' = {}
    /\ dropped' = listeners
    /\ Aside("stop_playing")

\* _on_stop_playing(): the driver lets go of the process.  Like the call
\* that takes it on, it may come while notifications are still scheduled.
OnStopPlaying ==
    /\ registered
    /\ registered' = FALSE
    /\ stack' = StackPop(stack)
    /\ listeners' = IF terminated THEN {} ELSE listeners
    /\ dropped' = IF terminated THEN listeners ELSE {}
    /\ Aside("stop_playing")

Next ==
    \/ Insert
    \/ ExecuteState
    \/ Abort
    \/ RunAbort
    \/ Deliver
    \/ Play
    \/ Pause
    \/ CallOut
    \/ SaveInstanceState
    \/ LoadInstanceState

\* The process with its checkpoints, no listener and no driver.
Spec == Init /\ [][Next]_vars

\* The process in a loop with its listeners and its driver, without checkpoints.
DrivenNext ==
    \/ Insert
    \/ ExecuteState
    \/ Abort
    \/ RunAbort
    \/ Deliver
    \/ Play
    \/ Pause
    \/ CallOut
    \/ AddProcessListener
    \/ RemoveProcessListener
    \/ OnStartPlaying
    \/ OnStopPlaying

DrivenSpec == Init /\ [][DrivenNext]_vars

\* ------------------------------------------------------- properties

\* The handlers that act on a process in a loop.
ControlOps == {"play", "pause", "abort", "do_abort", "execute", "deliver", "out"}

\* C1: once the process is in STOPPED or FAILED, has_terminated() is true and
\* stays true and the state label never changes again, whatever play(),
\* pause(), abort() or loop callback comes next.
C1_TerminalIsFinal ==
    [][(state \in Terminal /\ op' \in ControlOps)
         => (terminated /\ terminated' /\ state' = state)]_vars

\* C2: play() on a terminated process is a no-op: the terminal state is not
\* entered again, no hook is called and no notification is scheduled.
C2_PlayOnTerminatedIsNoOp ==
    [][(terminated /\ op' = "play")
         => (/\ trace' = <<>>
             /\ events' = events
             /\ UNCHANGED <<state, scheduled, finished, terminated, outputs>>)]_vars

C4_DeferredAbort ==
    [][op' = "do_abort" =>
         LET f == Head(queue).fut
         IN /\ terminated =>
                 /\ futs'[f] = "False"
                 /\ trace' = <<>>
                 /\ events' = events
                 /\ UNCHANGED <<state, aborted, abortMsg, excInfo, outputs,
                                finished, terminated>>
            /\ ~terminated =>
                 /\ futs'[f] /= "False"
                 /\ raised' = NoException => futs'[f] = "True"
                 /\ futs'[f] = "True" =>
                       state' = "STOPPED" /\ aborted' /\ terminated']_vars

\* A deferred abort has run on a terminated process that was not aborted.
C4_Witness ==
    /\ op = "do_abort"
    /\ terminated
    /\ ~aborted
    /\ futs = <<"False">>

\* C5: the call abort(msg) changes nothing of the process: it leaves one
\* deferred abort with the loop and returns its pending handle.
C5_AbortOnlyEnqueues ==
    [][op' = "abort" =>
         /\ UNCHANGED procVars
         /\ UNCHANGED events
         /\ inLoop =>
               /\ Len(queue') = Len(queue) + 1
               /\ queue'[Len(queue')].fut = Len(futs')
               /\ futs' = Append(futs, "pending")]_vars

\* abort() was called on a process that is waiting.
C5_Witness ==
    /\ op = "abort"
    /\ raised = NoException
    /\ state = "WAITING"
    /\ queue /= <<>>
    /\ futs[Len(futs)] = "pending"

\* The handlers that call hooks or out(); each starts with no notification pending.
HandlerOps == {"insert", "execute", "do_abort", "play", "pause", "out"}

\* C6: a process written to a bundle, loaded from it and inserted in a loop
\* has the pid, creation time, raw inputs, outputs, finished and terminated
\* flags of the capture, and the state label of the capture.
C6_RoundTrip ==
    (op = "insert" /\ bundle /= <<>>) =>
        LET saved == bundle[1]
        IN /\ pid = saved.pid
           /\ ctime = saved.creation_time
           /\ rawInputs = saved.inputs
           /\ outputs = saved.outputs
           /\ finished = saved.finished
           /\ terminated = saved.terminated
           /\ saved.state.label /= None => state = saved.state.label

\* A process that finished was captured after its termination and restored.
C6_Witness ==
    /\ op = "insert"
    /\ bundle /= <<>>
    /\ bundle[1].state.label = "STOPPED"
    /\ state = "STOPPED"
    /\ finished
    /\ terminated
    /\ outputs["y"] = "i1"
    /\ rawInputs = "inputs"

\* C7: a hook whose override returns without the base method having run makes
\* _call_with_super_check raise an AssertionError as soon as it returns: no
\* further hook of the transition is called, and the handler either ends with
\* that error or, when a state was executing, fails the process with it.
C7_MissingSuperCallAsserts ==
    \A i \in DOMAIN trace :
        trace[i].calls = 0 =>
            /\ trace[i].outcome = "AssertionError"
            /\ \A j \in DOMAIN trace : j > i => trace[j].hook = "on_fail"
            /\ \/ raised = "AssertionError"
               \/ state = "FAILED" /\ excInfo = "AssertionError"

\* An override without super call was called and the assertion was raised.
C7_Witness ==
    /\ trace /= <<>>
    /\ trace[Len(trace)].calls = 0
    /\ trace[Len(trace)].outcome = "AssertionError"
    /\ raised = "AssertionError"

RECURSIVE Broadcasts(_)
Broadcasts(t) ==
    IF t = <<>> THEN <<>>
    ELSE LET e == Head(t)
             n == IF e.outcome = "ok" /\ e.hook /= "on_create" THEN e.calls ELSE 0
         IN [k \in 1..n |-> ListenerEvent(e.hook)] \o Broadcasts(Tail(t))

RequiredOutputsEmitted(outs) == \A port \in DeclaredPorts : outs[port] \in IntValues

C10_UndeclaredPortRejected ==
    [][\A i \in DOMAIN outLog' :
          (outLog'[i].port \notin DeclaredPorts /\ ~hasDynamic) =>
              /\ outLog'[i].result = "TypeError"
              /\ i = Len(outLog')
              /\ outputs'[outLog'[i].port] = outputs[outLog'[i].port]
              /\ \A k \in DOMAIN emitted' : emitted'[k][1] /= outLog'[i].port
              /\ op' = "out" =>
                    /\ raised' = "TypeError"
                    /\ outputs' = outputs
                    /\ emitted' = <<>>
                    /\ events' = events]_vars

\* out() was called on the undeclared port and raised.
C10_Witness ==
    /\ op = "out"
    /\ ~hasDynamic
    /\ outLog = <<[port |-> "z", value |-> "i1", result |-> "TypeError"]>>
    /\ raised = "TypeError"

\* C11: out() on a declared port with a value that is not of the port's type
\* raises a TypeError, leaves the outputs as they were and calls no
\* on_output_emitted.
C11_MismatchedTypeRejected ==
    [][\A i \in DOMAIN outLog' :
          (outLog'[i].port \in DeclaredPorts /\ outLog'[i].value \notin IntValues) =>
              /\ outLog'[i].result = "TypeError"
              /\ outputs'[outLog'[i].port] = outputs[outLog'[i].port]
              /\ \A k \in DOMAIN emitted' : emitted'[k][1] /= outLog'[i].port]_vars

\* C12: no listener callback runs inside the operation that triggered it: a
\* callback runs only in the loop step that delivers a notification scheduled
\* before, and every handler only adds its notifications to the loop's queue.
C12_NoInlineCallback ==
    [][op' /= "deliver" =>
          /\ notified' = <<>>
          /\ Len(events') >= Len(events)
          /\ SubSeq(events', 1, Len(events)) = events]_vars

StateCall(m, label, arg) ==
    [method |-> m, label |-> label, arg |-> arg, depth |-> Len(stack)]

C15_TwoPhaseRestore ==
    [][/\ op' = "load" =>
              /\ state' = None
              /\ ~inLoop'
              /\ stateCalls' = <<>>
              /\ savedState' = bundle[1].state
       /\ op' = "insert" =>
              LET label == IF savedState = NoStateBundle
                           THEN "CREATED" ELSE savedState.label
              IN /\ state = None
                 /\ state' = label
                 /\ stateCalls' = <<StateCall("enter", label, None)>>]_vars

\* A process saved while WAITING was loaded and inserted.
C15_Witness ==
    /\ op = "insert"
    /\ bundle /= <<>>
    /\ bundle[1].state.label = "WAITING"
    /\ state = "WAITING"
    /\ waitingOn /= None
    /\ stateCalls = <<StateCall("enter", "WAITING", None)>>

\* The changes of label of the transition table.
TableTransitions ==
    {<<"CREATED", "RUNNING">>, <<"RUNNING", "WAITING">>, <<"RUNNING", "STOPPED">>,
     <<"WAITING", "RUNNING">>, <<"WAITING", "STOPPED">>,
     <<"CREATED", "FAILED">>, <<"RUNNING", "FAILED">>, <<"WAITING", "FAILED">>}

\* C16: every change of the label of the active state is a transition of the
\* table, WAITING to STOPPED only by an abort; there is none out of STOPPED or
\* FAILED.
C16_OnlyTableTransitions ==
    [][(state /= None /\ state' /= None /\ state' /= state) =>
          /\ <<state, state'>> \in TableTransitions
          /\ (state = "WAITING" /\ state' = "STOPPED") => aborted']_vars

C18_OutputsAppendOnly ==
    [][/\ \A port \in Ports : outputs[port] /= None => outputs'[port] = outputs[port]
       /\ state \in Terminal => outputs' = outputs]_vars

\* C19: pause() leaves the state label, the awaitable, the outputs, the
\* finished and terminated flags (and the data of the active state) as they
\* are, calls no hook and schedules nothing: it sets paused and the callback of
\* the active state is no longer pending.
C19_PauseKeepsState ==
    [][op' = "pause" =>
          /\ UNCHANGED <<state, waitingOn, outputs, finished, terminated,
                         aborted, abortMsg, excInfo, events, queue, futs>>
          /\ trace' = <<>>
          /\ paused'
          /\ scheduled' => scheduled
          /\ ~paused => ~scheduled']_vars

\* A WAITING process was paused and still holds its awaitable.
C19_Witness ==
    /\ op = "pause"
    /\ prevLabel = "WAITING"
    /\ state = "WAITING"
    /\ waitingOn \in WaitHandles
    /\ paused
    /\ ~scheduled
    /\ stateCalls /= <<>>

\* The abort() calls whose handle is resolved to True.
Won(fs) == {i \in DOMAIN fs : fs[i] = "True"}

\* C20: of the abort requests of a process at most one wins.  The deferred
\* abort that finds the process not terminated and returns performs the
\* transition: its handle becomes True, on_abort, on_stop and on_terminate are
\* called once each and get_abort_msg() is its message.  From then on every
\* deferred abort resolves its handle to False and changes nothing, and
\* get_abort_msg() stays the message of the abort that won.
C20_OneAbortWins ==
    [][/\ op' = "do_abort" =>
             LET f == Head(queue).fut
             IN /\ Won(futs) /= {} =>
                      /\ futs'[f] = "False"
                      /\ trace' = <<>>
                      /\ UNCHANGED <<state, aborted, abortMsg, terminated, events>>
                /\ (~terminated /\ raised' = NoException) =>
                      /\ futs'[f] = "True"
                      /\ abortMsg' = Head(queue).msg
                      /\ [i \in DOMAIN trace' |-> trace'[i].hook]
                            = <<"on_abort", "on_stop", "on_terminate">>
       /\ Cardinality(Won(futs')) <= 1
       /\ Won(futs) \subseteq Won(futs')
       /\ \A i \in Won(futs') :
             /\ terminated'
             /\ state' /= None => (state' = "STOPPED" /\ aborted' /\ abortMsg' = Msgs[i])]_vars

\* Two aborts were enqueued, the first has run and won, the second is still
\* in the loop's queue.
C20_Witness ==
    /\ op = "do_abort"
    /\ futs = <<"True", "pending">>
    /\ Len(queue) = 1
    /\ state = "STOPPED"
    /\ abortMsg = Msgs[1]

\* C21: when the loop has run the deferred abort of a handle, the handle is
\* resolved, to True or to False, whatever the state of the process was and
\* also when the abort of the state or a hook raised in the deferred routine.
C21_HandleResolved ==
    [][op' = "do_abort" => futs'[Head(queue).fut] \in {"True", "False"}]_vars

\* The notifications a terminating transition schedules.
TerminalEvents == {"on_process_stop", "on_process_fail", "on_process_terminate"}

\* C22: the listeners are never removed on termination while a notification of
\* the terminating transition (on_process_stop or on_process_fail, and
\* on_process_terminate) is still scheduled, so that a listener registered
\* before the transition is there when the loop delivers them.
C22_NotifiedBeforeDropped ==
    [][(op' = "stop_playing" /\ dropped' /= {}) =>
          \A i \in 1..Len(events) : events[i] \notin TerminalEvents]_vars

\* C23: in every reachable state has_finished() is not true together with
\* has_failed() or with has_aborted(), also when on_stop or on_terminate raises
\* after on_finish or an abort arrives after the outputs were checked.
C23_FinishedExcludesAbortAndFailure ==
    finished => (excInfo = None /\ ~aborted)

====
